---- MODULE Spec2Model ----
(***************************************************************************)
(* Model of the webhook order-execution flow of server.py: a Flask         *)
(* handler that, per request, sets leverage, submits a market entry order, *)
(* resolves its fill price, cancels stale protective orders and places a   *)
(* stop-loss and a take-profit order on Binance USD-M futures.             *)
(*                                                                         *)
(* Every exchange call is one atomic step of the serving thread; the       *)
(* local code between two calls belongs to the step of the earlier call.   *)
(* Requests are served by the worker threads of the WSGI server, so the    *)
(* steps of two requests may interleave.                                   *)
(***************************************************************************)
EXTENDS Integers, Sequences, FiniteSets, TLC

\* ------------------------------------------------------------- bounds
\* Requests are accepted while the next order id of the exchange is below
\* this; the ids below FirstFreeId belong to the orders of InitBooks.
MaxOrderId == 5

\* ------------------------------------------------- program constants
LEVERAGE == 125
FIXED_STOP_LOSS_POINTS == 200
FIXED_TAKE_PROFIT_POINTS == 1300

\* Two worker threads: the least that lets two requests overlap.
Threads == {1, 2}

\* ------------------------------------------------------------ numbers
\* A Python float is modelled as an exact fraction <<n, d>> with d > 0;
\* <<0, 0>> is NaN (every comparison with it is false).
NaN == <<0, 0>>
Rat(n, d) == <<n, d>>
RatGt0(r) == r[2] > 0 /\ r[1] > 0
RatLe0(r) == r[2] > 0 /\ r[1] <= 0
RatEq(a, b) == a[2] > 0 /\ b[2] > 0 /\ a[1] * b[2] = b[1] * a[2]
RatDiv(a, b) == <<a[1] * b[2], a[2] * b[1]>>
RatAddInt(r, k) == <<r[1] + k * r[2], r[2]>>

\* f"{x:.1f}": the decimal with one fractional digit nearest to x, an exact
\* tie going to the even digit. The result is the number of tenths.
Format1f(r) ==
    LET q == (10 * r[1]) \div r[2]
        rem == 10 * r[1] - q * r[2]
    IN IF 2 * rem < r[2] THEN q
       ELSE IF 2 * rem > r[2] THEN q + 1
       ELSE IF q % 2 = 0 THEN q ELSE q + 1

\* ----------------------------------------------------- request payload
\* request.get_json(): json = FALSE stands for a body that is no JSON object.
ActionValues == {"BUY", "sell", "close", "MISSING", "NONSTRING"}
QtyValues == {"1", "0", "-1", "abc", "null", "nan", "MISSING"}
Payloads == [json : {TRUE}, action : ActionValues, qty : QtyValues]
              \cup {[json |-> FALSE, action |-> "MISSING", qty |-> "MISSING"]}
NoData == [json |-> FALSE, action |-> "MISSING", qty |-> "MISSING"]

\* data.get('action', '').upper().strip() on the string values.
UpperStrip(a) ==
    CASE a = "BUY" -> "BUY"
      [] a = "sell" -> "SELL"
      [] a = "close" -> "CLOSE"
      [] OTHER -> ""

\* float(data.get('qty', 0)): "err" when float() raises ValueError/TypeError.
FloatOfQty(q) ==
    CASE q = "1" -> [err |-> FALSE, val |-> Rat(1, 1)]
      [] q = "0" -> [err |-> FALSE, val |-> Rat(0, 1)]
      [] q = "-1" -> [err |-> FALSE, val |-> Rat(-1, 1)]
      [] q = "nan" -> [err |-> FALSE, val |-> NaN]
      [] q = "MISSING" -> [err |-> FALSE, val |-> Rat(0, 1)]
      [] OTHER -> [err |-> TRUE, val |-> Rat(0, 1)]

\* ------------------------------------------------------------ responses
Response(status, message, binance_message, code) ==
    [status |-> status, message |-> message,
     binance_message |-> binance_message, code |-> code]
NoResponse == Response("", "", "", 0)

\* ------------------------------------------------- exchange entry replies
\* new_order(type=MARKET) answers: hasAvg says whether the avgPrice key is
\* present; side is the echoed order side ("" when the key is absent).
EntryReply(id, st, hasAvg, avg, qty, quote, hasSide) ==
    [orderId |-> id, status |-> st, hasAvg |-> hasAvg, avgPrice |-> avg,
     executedQty |-> qty, cumQuote |-> quote, hasSide |-> hasSide, side |-> ""]
EntryReplies ==
    { EntryReply(77, "FILLED", TRUE, Rat(1234, 10), Rat(2, 1), Rat(100, 1), TRUE),
      EntryReply(77, "FILLED", TRUE, Rat(5000025, 100), Rat(1, 1), Rat(5000025, 100), TRUE),
      EntryReply(77, "FILLED", TRUE, Rat(0, 1), Rat(2, 1), Rat(100, 1), TRUE),
      EntryReply(77, "PARTIALLY_FILLED", FALSE, Rat(0, 1), Rat(3, 1), Rat(100, 1), FALSE),
      EntryReply(77, "NEW", TRUE, Rat(0, 1), Rat(0, 1), Rat(0, 1), TRUE),
      EntryReply(77, "FILLED", TRUE, Rat(0, 1), Rat(1, 1), Rat(0, 1), TRUE),
      EntryReply(77, "EXPIRED", TRUE, Rat(1234, 10), Rat(2, 1), Rat(100, 1), TRUE),
      EntryReply(0, "FILLED", TRUE, Rat(1234, 10), Rat(2, 1), Rat(100, 1), TRUE) }
NarrowReplies ==
    { EntryReply(77, "FILLED", TRUE, Rat(1234, 10), Rat(2, 1), Rat(100, 1), TRUE),
      EntryReply(77, "NEW", TRUE, Rat(0, 1), Rat(0, 1), Rat(0, 1), TRUE),
      EntryReply(77, "EXPIRED", TRUE, Rat(1234, 10), Rat(2, 1), Rat(100, 1), TRUE) }
NoOrder == EntryReply(0, "", FALSE, Rat(0, 1), Rat(0, 1), Rat(0, 1), FALSE)

\* ------------------------------------------------------------ call log
\* One entry per call a request makes on the exchange client; a field a
\* call does not pass is "", 0 or FALSE.
Call(call, type, side, qty, price, id, closePosition) ==
    [call |-> call, type |-> type, side |-> side, quantity |-> qty,
     stopPrice |-> price, orderId |-> id, closePosition |-> closePosition,
     reduceOnly |-> FALSE, leverage |-> 0]
\* binance_client.change_leverage(symbol=symbol, leverage=leverage)
LeverageCall(leverage) ==
    [Call("change_leverage", "", "", <<0, 1>>, 0, 0, FALSE) EXCEPT !.leverage = leverage]

VARIABLES
    binance_client,  \* the global client handle: "None" or "Client"
    keysSet,         \* BINANCE_API_KEY and BINANCE_API_SECRET are configured
    book,            \* exchange: the open orders of TRADE_SYMBOL
    nextId,          \* exchange: the next order id it hands out
    th               \* per worker thread: the request it serves

vars == <<binance_client, keysSet, book, nextId, th>>


\* The local state of a thread that serves no request. data is the body of
\* the request being served; lev_out, ent_out, list_out and cancel_outs
\* record how its exchange calls ended, and log the calls it made.
IdleThread ==
    [pc |-> "idle", data |-> NoData, signal_type |-> "", quantity |-> Rat(0, 1),
     lev_out |-> "", leverage_success |-> FALSE,
     ent_out |-> "", reply |-> NoOrder,
     has_order |-> FALSE, entry_order |-> NoOrder, entry_message |-> "",
     has_price |-> FALSE, entry_price |-> Rat(0, 1), order_side |-> "",
     stop_loss_price_str |-> 0, take_profit_price_str |-> 0, close_side |-> "",
     list_out |-> "", open_orders |-> {}, order_ids_to_cancel |-> <<>>,
     cancel_outs |-> <<>>,
     sl_tp_status |-> <<>>, final_tg_message |-> <<>>,
     response |-> NoResponse, log |-> <<>>]

Order(id, type) == [orderId |-> id, type |-> type]
\* Books the exchange may hold when the server starts: empty, or a resting
\* limit order plus the protective pair a previous run left behind.
StaleBook == {Order(1, "LIMIT"), Order(2, "STOP_MARKET"), Order(3, "TAKE_PROFIT_MARKET")}
InitBooks == {{}, StaleBook}
FirstFreeId == Cardinality(StaleBook) + 1

\* Module level of server.py: the handle is set only when the keys are
\* configured and the time() probe succeeded, and is None otherwise.
Init ==
    /\ keysSet \in BOOLEAN
    /\ binance_client \in (IF keysSet THEN {"None", "Client"} ELSE {"None"})
    /\ book \in InitBooks
    /\ nextId = FirstFreeId
    /\ th = [t \in Threads |-> IdleThread]

\* The ways an exchange call ends: it returns, raises ClientError ("venue")
\* or raises another exception ("transport"); change_leverage also answers
\* with another leverage ("ok_other") or "No need to change leverage";
\* cancel_order also fails with -2011 for an order that is gone.
CallOutcomes == {"ok", "venue", "transport"}
LeverageOutcomes == {"ok", "ok_other", "noneed", "venue", "transport"}
EntryOutcomes == {"reply", "venue", "transport"}
CancelOutcomes == {"ok", "gone", "venue", "transport"}

\* The inputs of the runs with overlapping requests: few payloads, entry
\* replies and failures.
NarrowPayloads == {d \in Payloads : d.action \in {"BUY", "close"} /\ d.qty \in {"1", "abc"}}
NarrowLeverageOutcomes == {"ok", "venue", "transport"}
NarrowCallOutcomes == {"ok", "venue"}
NarrowCancelOutcomes == {"ok", "gone", "venue"}

\* ------------------------------------------------------ pure functions
Done(rec, resp, tg) == [rec EXCEPT !.pc = "done", !.response = resp, !.final_tg_message = tg]

\* webhook, from the JSON parse to the quantity check: the thread's next
\* local state, at "leverage" when the request is valid.
ParseRequest(rec, data) ==
    IF ~data.json
    THEN Done(rec, Response("error", "Could not parse JSON", "", 400), <<>>)
    ELSE IF data.action = "NONSTRING"
    THEN Done(rec, Response("error", "Internal server error", "", 500), <<"FATAL BOT ERROR">>)
    ELSE IF UpperStrip(data.action) \notin {"BUY", "SELL"}
    THEN Done([rec EXCEPT !.signal_type = UpperStrip(data.action)],
              Response("ignored, invalid action", "", "", 200), <<>>)
    ELSE LET f == FloatOfQty(data.qty) IN
         IF f.err \/ RatLe0(f.val)
         THEN Done([rec EXCEPT !.signal_type = UpperStrip(data.action)],
                   Response("error", "Invalid qty", "", 400), <<"Trade Failed", "Invalid qty">>)
         ELSE [rec EXCEPT !.pc = "leverage",
                          !.signal_type = UpperStrip(data.action),
                          !.quantity = f.val]


\* Mutant of set_leverage: a ClientError is logged and the success value of
\* the try block is returned.
set_leverage_VenueIgnored(client, out) ==
    IF client = "None" THEN [ok |-> FALSE, msg |-> "Binance client not initialized."]
    ELSE CASE out = "ok" -> [ok |-> TRUE, msg |-> "Leverage set (or already was)."]
           [] out = "ok_other" -> [ok |-> TRUE, msg |-> "Leverage change requested."]
           [] out = "noneed" -> [ok |-> TRUE, msg |-> "Leverage is already set."]
           [] out = "venue" -> [ok |-> TRUE, msg |-> "Failed leverage"]
           [] OTHER -> [ok |-> FALSE, msg |-> "Unexpected error setting leverage"]

\* Mutant of set_leverage: the "No need to change leverage" test is missing.
set_leverage_NoIdempotence(client, out) ==
    IF client = "None" THEN [ok |-> FALSE, msg |-> "Binance client not initialized."]
    ELSE CASE out = "ok" -> [ok |-> TRUE, msg |-> "Leverage set (or already was)."]
           [] out = "ok_other" -> [ok |-> TRUE, msg |-> "Leverage change requested."]
           [] out \in {"noneed", "venue"} -> [ok |-> FALSE, msg |-> "Failed leverage"]
           [] OTHER -> [ok |-> FALSE, msg |-> "Unexpected error setting leverage"]

\* set_leverage: (success, message) for the client handle and the way the
\* change_leverage call ended.
set_leverage(client, out) ==
    IF client = "None" THEN [ok |-> FALSE, msg |-> "Binance client not initialized."]
    ELSE CASE out = "ok" -> [ok |-> TRUE, msg |-> "Leverage set (or already was)."]
           [] out = "ok_other" -> [ok |-> TRUE, msg |-> "Leverage change requested."]
           [] out = "noneed" -> [ok |-> TRUE, msg |-> "Leverage is already set."]
           [] out = "venue" -> [ok |-> FALSE, msg |-> "Failed leverage"]
           [] OTHER -> [ok |-> FALSE, msg |-> "Unexpected error setting leverage"]

\* webhook after set_leverage returned.
AfterLeverage(rec, lev) ==
    IF ~lev.ok
    THEN Done([rec EXCEPT !.leverage_success = FALSE],
              Response("error", "Failed leverage", "", 500),
              <<"Trade Failed", "Leverage Error", lev.msg>>)
    ELSE [rec EXCEPT !.leverage_success = TRUE, !.pc = "entry"]

TradeSide(signal) == IF signal = "BUY" THEN "BUY" ELSE "SELL"

\* Mutant of place_entry_order: the derived price divides the executed
\* quantity by the cumulative quote.
place_entry_order_SwappedDivision(client, out, reply) ==
    IF client = "None"
    THEN [has |-> FALSE, order |-> NoOrder, msg |-> "Binance Client not initialized."]
    ELSE IF out = "venue"
    THEN [has |-> FALSE, order |-> NoOrder, msg |-> "Binance API Error"]
    ELSE IF out = "transport"
    THEN [has |-> FALSE, order |-> NoOrder, msg |-> "Unexpected error placing entry order"]
    ELSE IF reply.orderId # 0 /\ reply.status \in {"NEW", "FILLED", "PARTIALLY_FILLED"}
    THEN IF reply.hasAvg /\ RatGt0(reply.avgPrice)
         THEN [has |-> TRUE, order |-> reply, msg |-> "Futures entry order placed successfully."]
         ELSE IF RatGt0(reply.executedQty) /\ RatGt0(reply.cumQuote)
              THEN [has |-> TRUE,
                    order |-> [reply EXCEPT !.hasAvg = TRUE,
                                 !.avgPrice = RatDiv(reply.executedQty, reply.cumQuote)],
                    msg |-> "Futures entry order placed (avgPrice calculated)."]
              ELSE [has |-> TRUE, order |-> reply,
                    msg |-> "Order placed, but fill details pending or quantity was zero."]
    ELSE [has |-> FALSE, order |-> NoOrder, msg |-> "Order placement failed."]

\* place_entry_order: (order or None, message) for the way new_order ended
\* ("reply", "venue", "transport") and, for "reply", the exchange's answer.
place_entry_order(client, out, reply) ==
    IF client = "None"
    THEN [has |-> FALSE, order |-> NoOrder, msg |-> "Binance Client not initialized."]
    ELSE IF out = "venue"
    THEN [has |-> FALSE, order |-> NoOrder, msg |-> "Binance API Error"]
    ELSE IF out = "transport"
    THEN [has |-> FALSE, order |-> NoOrder, msg |-> "Unexpected error placing entry order"]
    ELSE IF reply.orderId # 0 /\ reply.status \in {"NEW", "FILLED", "PARTIALLY_FILLED"}
    THEN IF reply.hasAvg /\ RatGt0(reply.avgPrice)
         THEN [has |-> TRUE, order |-> reply, msg |-> "Futures entry order placed successfully."]
         ELSE IF RatGt0(reply.executedQty)
              THEN [has |-> TRUE,
                    order |-> [reply EXCEPT !.hasAvg = TRUE,
                                 !.avgPrice = RatDiv(reply.cumQuote, reply.executedQty)],
                    msg |-> "Futures entry order placed (avgPrice calculated)."]
              ELSE [has |-> TRUE, order |-> reply,
                    msg |-> "Order placed, but fill details pending or quantity was zero."]
    ELSE [has |-> FALSE, order |-> NoOrder, msg |-> "Order placement failed."]

\* Mutant of PriceUsable: every returned order goes on to the bracket.
PriceUsable_AnyOrder(e) == e.has

\* webhook: the entry result carries a usable price.
PriceUsable(e) == e.has /\ e.order.hasAvg /\ RatGt0(e.order.avgPrice)

\* Mutant of BracketPrices: the stop-loss of a short entry is computed as
\* for a long one.
BracketPrices_ShortAsLong(side, entry_price) ==
    LET is_long == side = "BUY" IN
    [stop_loss_price_str |->
        Format1f(RatAddInt(entry_price, -FIXED_STOP_LOSS_POINTS)),
     take_profit_price_str |->
        Format1f(IF is_long THEN RatAddInt(entry_price, FIXED_TAKE_PROFIT_POINTS)
                 ELSE RatAddInt(entry_price, -FIXED_TAKE_PROFIT_POINTS)),
     close_side |-> IF is_long THEN "SELL" ELSE "BUY"]

\* place_sl_tp_orders, the price strings (in tenths) and the close side.
BracketPrices(side, entry_price) ==
    LET is_long == side = "BUY" IN
    [stop_loss_price_str |->
        Format1f(IF is_long THEN RatAddInt(entry_price, -FIXED_STOP_LOSS_POINTS)
                 ELSE RatAddInt(entry_price, FIXED_STOP_LOSS_POINTS)),
     take_profit_price_str |->
        Format1f(IF is_long THEN RatAddInt(entry_price, FIXED_TAKE_PROFIT_POINTS)
                 ELSE RatAddInt(entry_price, -FIXED_TAKE_PROFIT_POINTS)),
     close_side |-> IF is_long THEN "SELL" ELSE "BUY"]

\* Mutant of EntryFailed: an entry that raised a transport error is
\* submitted again.
EntryFailed_Retry(rec, e) ==
    IF rec.ent_out = "transport"
    THEN [rec EXCEPT !.pc = "entry"]
    ELSE Done(rec, Response("error", "", e.msg, 500), <<"Trade Failed", e.msg>>)

\* webhook, the branch taken without a usable price: the error result. The
\* request ends; nothing is submitted again.
EntryFailed(rec, e) ==
    Done(rec, Response("error", "", e.msg, 500), <<"Trade Failed", e.msg>>)

\* webhook after place_entry_order returned: either the call of
\* place_sl_tp_orders (up to its first exchange call) or the error result.
AfterEntry(rec, e) ==
    LET r1 == [rec EXCEPT !.has_order = e.has, !.entry_order = e.order,
                          !.entry_message = e.msg]
    IN IF PriceUsable(e)
       THEN LET order_side == IF e.order.hasSide THEN e.order.side
                              ELSE TradeSide(rec.signal_type)
                b == BracketPrices(order_side, e.order.avgPrice)
            IN [r1 EXCEPT !.pc = "list", !.has_price = TRUE,
                          !.entry_price = e.order.avgPrice,
                          !.order_side = order_side,
                          !.stop_loss_price_str = b.stop_loss_price_str,
                          !.take_profit_price_str = b.take_profit_price_str,
                          !.close_side = b.close_side]
       ELSE EntryFailed(r1, e)

\* Mutant of AfterBracket: when a leg failed, webhook closes the position
\* it just opened with a reduce-only market order.
AfterBracket_AutoClose(rec, sl_tp_message) ==
    IF sl_tp_message = <<"OK Stop-Loss target", "OK Take-Profit target">>
    THEN Done([rec EXCEPT !.sl_tp_status = sl_tp_message],
              Response("success", "", rec.entry_message, 200),
              <<"New Trade Placed">> \o sl_tp_message)
    ELSE Done([rec EXCEPT !.sl_tp_status = sl_tp_message,
                          !.log = Append(@, [Call("new_order", "MARKET", rec.close_side,
                                                  rec.quantity, 0, 0, FALSE)
                                               EXCEPT !.reduceOnly = TRUE])],
              Response("error", "", "Bracket failed, position closed", 500),
              <<"Trade Failed">> \o sl_tp_message)

\* webhook after place_sl_tp_orders returned.
AfterBracket(rec, sl_tp_message) ==
    Done([rec EXCEPT !.sl_tp_status = sl_tp_message],
         Response("success", "", rec.entry_message, 200),
         <<"New Trade Placed">> \o sl_tp_message)

RECURSIVE SortedIds(_)
SortedIds(S) ==
    IF S = {} THEN <<>>
    ELSE LET m == CHOOSE x \in S : \A y \in S : x <= y
         IN <<m>> \o SortedIds(S \ {m})

\* place_sl_tp_orders: the ids of the listed stop-loss/take-profit orders.
IdsToCancel(open_orders) ==
    SortedIds({o.orderId : o \in {x \in open_orders :
                   x.type \in {"STOP_MARKET", "TAKE_PROFIT_MARKET"}}})

\* Mutant of AfterCancel: the test for code -2011 is missing, every
\* ClientError of a cancel is re-raised.
AfterCancel_GoneAborts(rec, out) ==
    IF out \in {"venue", "gone"}
    THEN [rec EXCEPT !.pc = "sl"]
    ELSE [rec EXCEPT !.order_ids_to_cancel = Tail(@),
                     !.pc = IF Tail(rec.order_ids_to_cancel) = <<>> THEN "sl" ELSE "cancel"]

\* Mutant of AfterCancel: the re-raised ClientError is not caught around the
\* cleanup and reaches the handler of webhook.
AfterCancel_Propagates(rec, out) ==
    IF out = "venue"
    THEN Done(rec, Response("error", "Internal server error", "", 500), <<"FATAL BOT ERROR">>)
    ELSE [rec EXCEPT !.order_ids_to_cancel = Tail(@),
                     !.pc = IF Tail(rec.order_ids_to_cancel) = <<>> THEN "sl" ELSE "cancel"]

\* place_sl_tp_orders, the cancel loop after one cancel_order call ended:
\* "ok" and "gone" (-2011) and a non-ClientError exception go on to the next
\* id; any other ClientError is re-raised and leaves the loop.
AfterCancel(rec, out) ==
    IF out = "venue"
    THEN [rec EXCEPT !.pc = "sl"]
    ELSE [rec EXCEPT !.order_ids_to_cancel = Tail(@),
                     !.pc = IF Tail(rec.order_ids_to_cancel) = <<>> THEN "sl" ELSE "cancel"]

\* The text place_sl_tp_orders appends for the stop-loss leg.
SlStatus(out) ==
    CASE out = "ok" -> "OK Stop-Loss target"
      [] out = "venue" -> "X Failed SL"
      [] OTHER -> "X Unexpected SL error"

\* The text place_sl_tp_orders appends for the take-profit leg.
TpStatus(out) ==
    CASE out = "ok" -> "OK Take-Profit target"
      [] out = "venue" -> "X Failed TP"
      [] OTHER -> "X Unexpected TP error"

NoArg == Rat(0, 1)
Logged(rec, c) == [rec EXCEPT !.log = Append(@, c)]

\* -------------------------------------------------------------- actions
\* webhook up to its first exchange call: the re-initialisation of a None
\* handle (keys missing: error result; else the handle is assigned and
\* time() is called), or the parse of the payload.
Webhook(t, data) ==
    /\ th[t].pc = "idle"
    /\ nextId < MaxOrderId
    /\ IF binance_client = "None"
       THEN IF ~keysSet
            THEN /\ th' = [th EXCEPT ![t] =
                        Done([@ EXCEPT !.data = data],
                             Response("error", "Binance client failed initialization", "", 500),
                             <<"BOT ERROR">>)]
                 /\ UNCHANGED binance_client
            ELSE /\ binance_client' = "Client"
                 /\ th' = [th EXCEPT ![t] = [@ EXCEPT !.data = data, !.pc = "reinit"]]
       ELSE /\ th' = [th EXCEPT ![t] = ParseRequest([@ EXCEPT !.data = data], data)]
            /\ UNCHANGED binance_client
    /\ UNCHANGED <<keysSet, book, nextId>>

\* webhook, binance_client.time() of the re-initialisation returns or raises.
ReinitTime(t, ok) ==
    /\ th[t].pc = "reinit"
    /\ th' = [th EXCEPT ![t] =
                IF ok THEN ParseRequest(Logged(@, Call("time", "", "", NoArg, 0, 0, FALSE)),
                                        @.data)
                ELSE Done(Logged(@, Call("time", "", "", NoArg, 0, 0, FALSE)),
                          Response("error", "Binance client failed initialization", "", 500),
                          <<"BOT ERROR">>)]
    /\ UNCHANGED <<binance_client, keysSet, book, nextId>>

\* set_leverage(TRADE_SYMBOL, LEVERAGE) and the webhook's check of its result.
SetLeverage(t, out) ==
    /\ th[t].pc = "leverage"
    /\ th' = [th EXCEPT ![t] =
                AfterLeverage(
                    IF binance_client = "None" THEN [@ EXCEPT !.lev_out = "noclient"]
                    ELSE Logged([@ EXCEPT !.lev_out = out],
                                LeverageCall(LEVERAGE)),
                    set_leverage(binance_client, out))]
    /\ UNCHANGED <<binance_client, keysSet, book, nextId>>

\* place_entry_order(signal_type, quantity) and the webhook's handling of
\* its result, up to the first call of place_sl_tp_orders.
PlaceEntry(t, out, r) ==
    /\ th[t].pc = "entry"
    /\ LET side == TradeSide(th[t].signal_type)
           reply == IF out = "reply"
                    THEN [r EXCEPT !.side = IF r.hasSide THEN side ELSE ""]
                    ELSE NoOrder
       IN th' = [th EXCEPT ![t] =
                   AfterEntry(
                       Logged([@ EXCEPT !.ent_out = out, !.reply = reply],
                              Call("new_order", "MARKET", side, @.quantity, 0, 0, FALSE)),
                       place_entry_order(binance_client, out, reply))]
    /\ UNCHANGED <<binance_client, keysSet, book, nextId>>

\* place_sl_tp_orders: get_open_orders and the selection of the ids to cancel.
GetOpenOrders(t, out) ==
    /\ th[t].pc = "list"
    /\ th' = [th EXCEPT ![t] =
                LET r1 == Logged([@ EXCEPT !.list_out = out],
                                 Call("get_open_orders", "", "", NoArg, 0, 0, FALSE))
                IN IF out = "ok"
                   THEN [r1 EXCEPT !.open_orders = book,
                                   !.order_ids_to_cancel = IdsToCancel(book),
                                   !.pc = IF IdsToCancel(book) = <<>> THEN "sl" ELSE "cancel"]
                   ELSE [r1 EXCEPT !.pc = "sl"]]
    /\ UNCHANGED <<binance_client, keysSet, book, nextId>>

\* place_sl_tp_orders: one cancel_order call of the loop. The exchange
\* cancels a live order ("ok"), reports -2011 for one that is gone, or the
\* call fails otherwise and the order stays as it is.
CancelOrder(t, out) ==
    /\ th[t].pc = "cancel"
    /\ LET id == Head(th[t].order_ids_to_cancel)
           live == \E o \in book : o.orderId = id
       IN /\ out = "ok" => live
          /\ out = "gone" => ~live
          /\ book' = IF out = "ok" THEN {o \in book : o.orderId # id} ELSE book
          /\ th' = [th EXCEPT ![t] =
                      AfterCancel(Logged([@ EXCEPT !.cancel_outs = Append(@, out)],
                                         Call("cancel_order", "", "", NoArg, 0, id, FALSE)),
                                  out)]
    /\ UNCHANGED <<binance_client, keysSet, nextId>>

\* The exchange's side of new_order for a protective order: it rests in the
\* book, under a fresh id, when the call succeeded.
Rests(type, out) ==
    /\ book' = IF out = "ok" THEN book \cup {Order(nextId, type)} ELSE book
    /\ nextId' = IF out = "ok" THEN nextId + 1 ELSE nextId

\* place_sl_tp_orders: the stop-loss new_order call.
PlaceSL(t, out) ==
    /\ th[t].pc = "sl"
    /\ Rests("STOP_MARKET", out)
    /\ th' = [th EXCEPT ![t] =
                [Logged(@, Call("new_order", "STOP_MARKET", @.close_side, NoArg,
                                @.stop_loss_price_str, 0, TRUE))
                   EXCEPT !.sl_tp_status = Append(@, SlStatus(out)), !.pc = "tp"]]
    /\ UNCHANGED <<binance_client, keysSet>>

\* place_sl_tp_orders: the take-profit new_order call, its return, and the
\* webhook's success result.
PlaceTP(t, out) ==
    /\ th[t].pc = "tp"
    /\ Rests("TAKE_PROFIT_MARKET", out)
    /\ th' = [th EXCEPT ![t] =
                AfterBracket(Logged(@, Call("new_order", "TAKE_PROFIT_MARKET", @.close_side,
                                            NoArg, @.take_profit_price_str, 0, TRUE)),
                             Append(@.sl_tp_status, TpStatus(out)))]
    /\ UNCHANGED <<binance_client, keysSet>>

\* The response is sent; the thread is free for the next request.
Respond(t) ==
    /\ th[t].pc = "done"
    /\ th' = [th EXCEPT ![t] = IdleThread]
    /\ UNCHANGED <<binance_client, keysSet, book, nextId>>

\* The exchange triggers (or the trader removes) a resting protective order.
OrderGone(o) ==
    /\ o \in book
    /\ o.type \in {"STOP_MARKET", "TAKE_PROFIT_MARKET"}
    /\ book' = book \ {o}
    /\ UNCHANGED <<binance_client, keysSet, nextId, th>>

\* Requests overlap on the worker threads; the exchange is quiet.
Next ==
    \/ \E t \in Threads, data \in NarrowPayloads : Webhook(t, data)
    \/ \E t \in Threads, ok \in BOOLEAN : ReinitTime(t, ok)
    \/ \E t \in Threads, out \in NarrowLeverageOutcomes : SetLeverage(t, out)
    \/ \E t \in Threads, out \in EntryOutcomes, r \in NarrowReplies : PlaceEntry(t, out, r)
    \/ \E t \in Threads, out \in NarrowCallOutcomes : GetOpenOrders(t, out)
    \/ \E t \in Threads, out \in NarrowCancelOutcomes : CancelOrder(t, out)
    \/ \E t \in Threads, out \in NarrowCallOutcomes : PlaceSL(t, out)
    \/ \E t \in Threads, out \in NarrowCallOutcomes : PlaceTP(t, out)
    \/ \E t \in Threads : Respond(t)

\* One worker serves the requests one after the other, with every payload,
\* entry reply and failure; the exchange triggers resting orders.
NextSeq ==
    \/ \E data \in Payloads : Webhook(1, data)
    \/ \E ok \in BOOLEAN : ReinitTime(1, ok)
    \/ \E out \in LeverageOutcomes : SetLeverage(1, out)
    \/ \E out \in EntryOutcomes, r \in EntryReplies : PlaceEntry(1, out, r)
    \/ \E out \in CallOutcomes : GetOpenOrders(1, out)
    \/ \E out \in CancelOutcomes : CancelOrder(1, out)
    \/ \E out \in CallOutcomes : PlaceSL(1, out)
    \/ \E out \in CallOutcomes : PlaceTP(1, out)
    \/ Respond(1)
    \/ \E o \in book : OrderGone(o)

Spec == Init /\ [][Next]_vars
SpecSeq == Init /\ [][NextSeq]_vars

\* ------------------------------------------------- reading the call log
Idx(t, c, ty) ==
    {i \in DOMAIN th[t].log : th[t].log[i].call = c /\ th[t].log[i].type = ty}
LevIdx(t) == Idx(t, "change_leverage", "")
EntryIdx(t) == Idx(t, "new_order", "MARKET")
ListIdx(t) == Idx(t, "get_open_orders", "")
CancelIdx(t) == Idx(t, "cancel_order", "")
SLIdx(t) == Idx(t, "new_order", "STOP_MARKET")
TPIdx(t) == Idx(t, "new_order", "TAKE_PROFIT_MARKET")
BracketIdx(t) == ListIdx(t) \cup CancelIdx(t) \cup SLIdx(t) \cup TPIdx(t)

\* The leverage call of thread t's request ended in failure.
LevFailed(t) == th[t].lev_out \in {"venue", "transport", "noclient"}
\* The exchange accepted the entry order of thread t's request.
EntryAccepted(t) ==
    /\ th[t].ent_out = "reply"
    /\ th[t].reply.orderId # 0
    /\ th[t].reply.status \in {"NEW", "FILLED", "PARTIALLY_FILLED"}
\* The accepted reply reports an average price > 0.
HasAvgPrice(r) == r.hasAvg /\ RatGt0(r.avgPrice)

\* C1: the leverage call precedes the entry order, and after a failed
\* leverage call the request submits no entry, cancel, stop-loss or
\* take-profit call and ends with an error result.
C1_LeverageBeforeEntry ==
    \A t \in Threads :
        /\ \A i \in EntryIdx(t) : \E j \in LevIdx(t) : j < i
        /\ LevFailed(t) =>
              /\ EntryIdx(t) \cup BracketIdx(t) = {}
              /\ th[t].pc = "done"
              /\ th[t].response.status = "error"
C1_Witness ==
    \E t \in Threads :
        /\ th[t].lev_out = "venue"
        /\ LevIdx(t) # {}
        /\ th[t].pc = "done"
        /\ th[t].response.status = "error"

\* C2: the book never holds more than one live stop-loss order nor more
\* than one live take-profit order.
C2_AtMostOneStopAndOneTakeProfit ==
    /\ Cardinality({o \in book : o.type = "STOP_MARKET"}) <= 1
    /\ Cardinality({o \in book : o.type = "TAKE_PROFIT_MARKET"}) <= 1

\* Exactly one leg of thread t's finished bracket failed.
OneLegFailed(t) ==
    /\ th[t].pc = "done"
    /\ Len(th[t].sl_tp_status) = 2
    /\ (th[t].sl_tp_status[1] = SlStatus("ok")) # (th[t].sl_tp_status[2] = TpStatus("ok"))
BothLegsOk == <<SlStatus("ok"), TpStatus("ok")>>

\* C3: when exactly one leg of the bracket fails, the status that
\* place_sl_tp_orders returns and the result the webhook returns both differ
\* from those of a request whose two legs succeeded.
C3_PartialBracketVisible ==
    \A t \in Threads :
        OneLegFailed(t) =>
            /\ th[t].sl_tp_status # BothLegsOk
            /\ th[t].response # AfterBracket(th[t], BothLegsOk).response

\* C4: for an accepted entry, an average price > 0 in the reply is the
\* resolved price whatever the other fields are; else, with executedQty > 0,
\* the resolved price times executedQty is cumQuote (0, 2, 100 gives 50);
\* else no price is resolved and nothing is submitted after the entry. A
\* price used downstream is never 0.
C4_FillPriceResolution ==
    \A t \in Threads :
        /\ th[t].has_price => RatGt0(th[t].entry_price)
        /\ EntryAccepted(t) =>
            LET r == th[t].reply
                resolved == th[t].entry_order.avgPrice
            IN IF HasAvgPrice(r)
               THEN th[t].has_price /\ th[t].entry_price = r.avgPrice
               ELSE IF RatGt0(r.executedQty)
               THEN /\ th[t].has_order /\ th[t].entry_order.hasAvg
                    /\ RatEq(<<resolved[1] * r.executedQty[1], resolved[2] * r.executedQty[2]>>,
                             r.cumQuote)
                    /\ th[t].has_price => th[t].entry_price = resolved
                    /\ RatGt0(r.cumQuote) => th[t].has_price
                    /\ (r.executedQty = Rat(2, 1) /\ r.cumQuote = Rat(100, 1))
                          => RatEq(th[t].entry_price, Rat(50, 1))
               ELSE /\ ~th[t].has_price
                    /\ BracketIdx(t) = {}
                    /\ th[t].pc = "done"
C4_Witness ==
    \E t \in Threads :
        /\ EntryAccepted(t)
        /\ ~HasAvgPrice(th[t].reply)
        /\ th[t].reply.executedQty = Rat(2, 1)
        /\ th[t].reply.cumQuote = Rat(100, 1)
        /\ th[t].has_price
        /\ RatEq(th[t].entry_price, Rat(50, 1))
        /\ SLIdx(t) # {}

\* The entry of thread t's request gave no price: it was rejected, raised,
\* or was accepted with no average price and nothing executed.
NoFillPrice(t) ==
    \/ th[t].ent_out \in {"venue", "transport"}
    \/ th[t].ent_out = "reply" /\ ~EntryAccepted(t)
    \/ EntryAccepted(t) /\ ~HasAvgPrice(th[t].reply) /\ ~RatGt0(th[t].reply.executedQty)

\* C5: a request makes a list, cancel, stop-loss or take-profit call only
\* after an accepted entry with a resolved fill price > 0; a rejected entry,
\* a transport error and an indeterminate fill end the request with the
\* entry as its last exchange call.
C5_NoBracketWithoutFillPrice ==
    \A t \in Threads :
        /\ BracketIdx(t) # {} =>
              /\ EntryAccepted(t)
              /\ HasAvgPrice(th[t].reply) \/ RatGt0(th[t].reply.executedQty)
              /\ RatGt0(th[t].entry_price)
              /\ \A i \in BracketIdx(t) : \E j \in EntryIdx(t) : j < i
        /\ NoFillPrice(t) =>
              /\ th[t].pc = "done"
              /\ BracketIdx(t) = {}
              /\ th[t].log[Len(th[t].log)].type = "MARKET"
C5_Witness ==
    \E t \in Threads :
        /\ EntryAccepted(t)
        /\ ~HasAvgPrice(th[t].reply) /\ ~RatGt0(th[t].reply.executedQty)
        /\ th[t].pc = "done"
        /\ th[t].response.status = "error"
        /\ BracketIdx(t) = {}

\* The stop price of a logged call, in tenths, is x rounded to one decimal.
Nearest(tenths, x) ==
    LET diff == tenths * x[2] - 10 * x[1]
    IN 2 * (IF diff < 0 THEN -diff ELSE diff) <= x[2]
\* The stop price of a logged call, in tenths, is exactly x.
Exactly(tenths, x) == tenths * x[2] = 10 * x[1]

\* The bracket of thread t's request, its triggers compared by Same to the
\* fill price moved by the fixed points.
Bracket(t, Same(_, _)) ==
    LET long == th[t].signal_type = "BUY"
        P == th[t].entry_price
        close == IF long THEN "SELL" ELSE "BUY"
    IN /\ \A i \in SLIdx(t) :
            /\ Same(th[t].log[i].stopPrice,
                    RatAddInt(P, IF long THEN -FIXED_STOP_LOSS_POINTS
                                 ELSE FIXED_STOP_LOSS_POINTS))
            /\ th[t].log[i].side = close
            /\ th[t].log[i].closePosition
       /\ \A i \in TPIdx(t) :
            /\ Same(th[t].log[i].stopPrice,
                    RatAddInt(P, IF long THEN FIXED_TAKE_PROFIT_POINTS
                                 ELSE -FIXED_TAKE_PROFIT_POINTS))
            /\ th[t].log[i].side = close
            /\ th[t].log[i].closePosition

\* C6, as claimed: the triggers are exactly the fill price moved by the
\* fixed points, on the close side with closePosition = true.
C6_BracketExact == \A t \in Threads : Bracket(t, Exactly)

\* C6, amended: the triggers are the fill price moved by the fixed points
\* and rounded to one decimal place (within 0.05 of the exact value), on the
\* close side with closePosition = true.
C6_BracketRounded == \A t \in Threads : Bracket(t, Nearest)
C6_Witness ==
    \E t \in Threads :
        /\ th[t].signal_type = "SELL"
        /\ TPIdx(t) # {}
        /\ ~Exactly(th[t].log[CHOOSE i \in SLIdx(t) : TRUE].stopPrice,
                    RatAddInt(th[t].entry_price, FIXED_STOP_LOSS_POINTS))

\* C7: once the open orders were listed and the new stop-loss is placed,
\* every listed stop-loss/take-profit order was sent a cancel call before
\* it, and no other order was.
C7_EveryListedOrderCancelled ==
    \A t \in Threads :
        (th[t].list_out = "ok" /\ SLIdx(t) # {}) =>
            /\ \A o \in th[t].open_orders :
                  o.type \in {"STOP_MARKET", "TAKE_PROFIT_MARKET"}
                     <=> \E i \in CancelIdx(t) : th[t].log[i].orderId = o.orderId
            /\ \A i \in CancelIdx(t) : \A j \in SLIdx(t) \cup TPIdx(t) : i < j

\* C8: a "No need to change leverage" answer makes set_leverage succeed,
\* and the request goes on to submit the entry order.
C8_IdempotentLeverage ==
    \A t \in Threads :
        th[t].lev_out = "noneed" =>
            /\ th[t].leverage_success
            /\ th[t].pc = "entry" \/ EntryIdx(t) # {}
            /\ th[t].response.message # "Failed leverage"
C8_Witness ==
    \E t \in Threads : th[t].lev_out = "noneed" /\ EntryIdx(t) # {}

\* C9: a request issues the leverage call, the entry order, the stop-loss
\* and the take-profit at most once each, whatever the calls return.
C9_NoRetry ==
    \A t \in Threads :
        /\ Cardinality(LevIdx(t)) <= 1
        /\ Cardinality(EntryIdx(t)) <= 1
        /\ Cardinality(SLIdx(t)) <= 1
        /\ Cardinality(TPIdx(t)) <= 1
C9_Witness ==
    \E t \in Threads :
        /\ th[t].ent_out = "transport"
        /\ th[t].pc = "done"
        /\ Cardinality(EntryIdx(t)) = 1

\* Thread t's request has made its leverage call and is not finished.
InFlight(t) == LevIdx(t) # {} /\ th[t].pc \notin {"idle", "done"}

\* C10: the enter sequences of two requests never overlap.
C10_MutualExclusion ==
    \A t1, t2 \in Threads : t1 # t2 => ~(InFlight(t1) /\ InFlight(t2))

\* The request thread t serves got past the client check and its payload
\* is a JSON object.
Parsed(t) == th[t].pc \notin {"idle", "reinit"} /\ th[t].data.json
                /\ th[t].response.message # "Binance client failed initialization"
\* The request thread t serves is a close signal.
CloseSignal(t) == Parsed(t) /\ UpperStrip(th[t].data.action) = "CLOSE"
PositionIdx(t) == Idx(t, "get_position_risk", "")
AnyCall(t) == LevIdx(t) \cup EntryIdx(t) \cup BracketIdx(t)

\* C11: a finished close request has read the position from the exchange
\* and either ends NoPosition with no order call, or has submitted exactly
\* one market order, reduce-only, and no other order.
C11_CloseFlow ==
    \A t \in Threads :
        (CloseSignal(t) /\ th[t].pc = "done") =>
            /\ PositionIdx(t) # {}
            /\ \/ th[t].response.status = "NoPosition" /\ Idx(t, "new_order", "MARKET") = {}
               \/ /\ Cardinality(EntryIdx(t)) = 1
                  /\ \A i \in EntryIdx(t) : th[t].log[i].reduceOnly
            /\ SLIdx(t) \cup TPIdx(t) = {}

\* The quantity of thread t's request is absent, is no number, or is not > 0.
QtyNotPositive(t) ==
    LET f == FloatOfQty(th[t].data.qty)
    IN th[t].data.qty = "MISSING" \/ f.err \/ ~RatGt0(f.val)

\* C12: a request with a recognised action whose quantity is absent, is no
\* number or is not > 0 ends with an error result and has made no leverage,
\* entry, list, cancel, stop-loss or take-profit call.
C12_InvalidQtyRejected ==
    \A t \in Threads :
        (Parsed(t) /\ th[t].signal_type \in {"BUY", "SELL"} /\ QtyNotPositive(t)) =>
            /\ AnyCall(t) = {}
            /\ th[t].pc = "done" => th[t].response.status = "error"

\* The entry of thread t's request was accepted and its reply resolves to a
\* fill price > 0.
ResolvedPrice(t) ==
    /\ EntryAccepted(t)
    /\ \/ HasAvgPrice(th[t].reply)
       \/ RatGt0(th[t].reply.executedQty) /\ RatGt0(th[t].reply.cumQuote)
\* The cancel loop of thread t's request was left by a failed cancel.
CancelAborted(t) ==
    th[t].pc \in {"sl", "tp", "done"} /\ th[t].order_ids_to_cancel # <<>>

\* C14: after an accepted entry with a resolved fill price > 0 the request
\* is in the bracket attempt until it is done; the stop-loss call is made
\* exactly once before the take-profit step, the take-profit call exactly
\* once before the request is done, in that order, whatever the listing, the
\* cancels and the stop-loss call returned.
C14_BracketRunsToCompletion ==
    \A t \in Threads :
        ResolvedPrice(t) =>
            /\ th[t].pc \in {"list", "cancel", "sl", "tp", "done"}
            /\ Cardinality(SLIdx(t)) = (IF th[t].pc \in {"tp", "done"} THEN 1 ELSE 0)
            /\ Cardinality(TPIdx(t)) = (IF th[t].pc = "done" THEN 1 ELSE 0)
            /\ \A i \in SLIdx(t), j \in TPIdx(t) : i < j
C14_Witness ==
    \E t \in Threads :
        /\ ResolvedPrice(t)
        /\ th[t].pc = "done"
        /\ CancelAborted(t)
        /\ th[t].sl_tp_status[1] = SlStatus("venue")
        /\ Cardinality(SLIdx(t)) = 1 /\ Cardinality(TPIdx(t)) = 1

\* A leg of thread t's bracket attempt has failed.
LegFailed(t) ==
    \E k \in DOMAIN th[t].sl_tp_status :
        th[t].sl_tp_status[k] \notin {SlStatus("ok"), TpStatus("ok")}

\* C15: a request whose entry was accepted submits one market order, the
\* entry, and no reduce-only order; once its stop-loss call is made it makes
\* no call but the take-profit one, so no cancel and no closing order follows
\* a failed leg; the failure is reported in the bracket status and the
\* message only.
C15_NeverUnwound ==
    \A t \in Threads :
        EntryAccepted(t) =>
            /\ Cardinality(EntryIdx(t)) = 1
            /\ \A i \in DOMAIN th[t].log : ~th[t].log[i].reduceOnly
            /\ \A i \in SLIdx(t) : \A j \in DOMAIN th[t].log :
                  j > i => (j \in TPIdx(t) /\ j = Len(th[t].log))
            /\ (th[t].pc = "done" /\ LegFailed(t)) =>
                  th[t].final_tg_message = <<"New Trade Placed">> \o th[t].sl_tp_status
C15_Witness ==
    \E t \in Threads :
        /\ EntryAccepted(t)
        /\ th[t].pc = "done"
        /\ th[t].sl_tp_status = <<SlStatus("venue"), TpStatus("venue")>>
        /\ Cardinality(EntryIdx(t)) = 1
        /\ Len(th[t].log) \in TPIdx(t)

\* The entry of thread t's request was accepted, its reply has no average
\* price > 0 and nothing was executed.
IndeterminateFill(t) ==
    EntryAccepted(t) /\ ~HasAvgPrice(th[t].reply) /\ ~RatGt0(th[t].reply.executedQty)
\* The result webhook returns for an entry order the exchange rejected.
RejectedEntryResponse(t) ==
    EntryFailed(th[t], place_entry_order("Client", "venue", NoOrder)).response

\* C16: the result of a request that ended in an indeterminate fill does
\* not carry the status of a request whose entry order the exchange
\* rejected.
C16_IndeterminateFillDistinguished ==
    \A t \in Threads :
        (th[t].pc = "done" /\ IndeterminateFill(t)) =>
            th[t].response.status # RejectedEntryResponse(t).status

\* C17: when the k-th cancel call of a request is answered -2011 ("gone"),
\* the loop goes on: the next listed id is the one to cancel next or has
\* been sent its cancel call, after the last listed id the request is at the
\* stop-loss placement or beyond, and a finished request has made its
\* stop-loss and its take-profit call.
C17_AlreadyGoneIsSuccess ==
    \A t \in Threads :
        \A k \in DOMAIN th[t].cancel_outs :
            th[t].cancel_outs[k] = "gone" =>
                LET ids == IdsToCancel(th[t].open_orders)
                    calls == SortedIds(CancelIdx(t))
                IN /\ k < Len(ids) =>
                        \/ /\ Len(calls) > k
                           /\ th[t].log[calls[k + 1]].orderId = ids[k + 1]
                        \/ /\ th[t].pc = "cancel"
                           /\ Head(th[t].order_ids_to_cancel) = ids[k + 1]
                   /\ k = Len(ids) => th[t].pc \in {"sl", "tp", "done"}
                   /\ th[t].pc = "done" =>
                        Cardinality(SLIdx(t)) = 1 /\ Cardinality(TPIdx(t)) = 1
C17_Witness ==
    \E t \in Threads :
        /\ Len(th[t].cancel_outs) = 2
        /\ th[t].cancel_outs[1] = "gone"
        /\ th[t].cancel_outs[2] = "ok"
        /\ th[t].pc = "done"
        /\ Cardinality(SLIdx(t)) = 1 /\ Cardinality(TPIdx(t)) = 1

\* The cleanup of thread t's request failed otherwise than by -2011: the
\* listing failed, or a cancel call failed with another error.
CleanupFailed(t) ==
    \/ th[t].list_out \in {"venue", "transport"}
    \/ \E k \in DOMAIN th[t].cancel_outs : th[t].cancel_outs[k] \in {"venue", "transport"}
\* The statuses place_sl_tp_orders returns when the cleanup fully succeeded.
CleanStatuses == {<<SlStatus(a), TpStatus(b)>> : a, b \in CallOutcomes}

\* C18: a finished request whose cleanup failed has made its stop-loss and
\* its take-profit call, and the status place_sl_tp_orders returned is none
\* of the statuses of a run whose cleanup fully succeeded.
C18_CleanupFailureSurfaced ==
    \A t \in Threads :
        (th[t].pc = "done" /\ CleanupFailed(t)) =>
            /\ Cardinality(SLIdx(t)) = 1 /\ Cardinality(TPIdx(t)) = 1
            /\ th[t].sl_tp_status \notin CleanStatuses

\* The action of thread t's request is missing or is none of the recognised
\* directions.
Unrecognised(t) ==
    \/ th[t].data.action \in {"MISSING", "NONSTRING"}
    \/ UpperStrip(th[t].data.action) \notin {"BUY", "SELL"}

\* C19: a request whose action is missing or not recognised ends with the
\* result "ignored, invalid action" and has made no leverage, entry, list,
\* cancel, stop-loss or take-profit call, whatever its quantity.
C19_InvalidActionIgnored ==
    \A t \in Threads :
        (Parsed(t) /\ Unrecognised(t)) =>
            /\ th[t].pc = "done"
            /\ th[t].response.status = "ignored, invalid action"
            /\ AnyCall(t) = {}

\* The re-initialisation of the handle failed in thread t's request.
ReinitFailed(t) == th[t].response.message = "Binance client failed initialization"

\* C20: a request probes the exchange at most once to re-initialise the
\* handle; when the re-initialisation failed the handle is None and the
\* request has ended with an error result and without a leverage, entry,
\* list, cancel, stop-loss or take-profit call; a request that got past the
\* client check runs with a handle that is not None.
C20_ReinitOnce ==
    \A t \in Threads :
        /\ Cardinality(Idx(t, "time", "")) <= 1
        /\ ReinitFailed(t) =>
              /\ binance_client = "None"
              /\ th[t].pc = "done"
              /\ th[t].response.status = "error"
              /\ AnyCall(t) = {}
        /\ Parsed(t) => binance_client = "Client"
====
